---------------------------- MODULE Spec2Model ----------------------------
(***************************************************************************)
(* Plotter<T>: a fixed-width text-table renderer (include/Plotter.hpp,     *)
(* src/Plotter.cpp).  One instance is modelled: its construction from      *)
(* caller-supplied arguments and its two render entry points, print_table  *)
(* and get_table.                                                          *)
(***************************************************************************)
EXTENDS Integers, Sequences, FiniteSets, TLC

(***************************************************************************)
(* Bounds of the model.                                                    *)
(***************************************************************************)
MaxWidth == 13

MaxSize == 6

MaxCols == 2

MaxRenders == 2

VARIABLES
    phase,              \* "unconstructed" | "constructed" | "failed"
    args,               \* the constructor arguments as passed by the caller
    thrown,             \* what() of the exception the constructor threw, or NoThrow
    T,                  \* the element type of the instantiation
    _table,             \* std::stringstream _table  (its contents)
    _data,              \* the caller's array that T* _data points to
    _data_arrangement,
    _column_names,
    _name,
    _table_width,
    _column_width,      \* unsigned int, kept as [top, low]: value = top * 2^31 + low
    _size,
    _cols,
    _rows,
    _precision,
    calls,              \* number of render calls made on the instance
    last                \* what the latest render call did (see NoCall)

fields == <<T, _data_arrangement, _column_names, _name, _table_width,
            _column_width, _size, _cols, _rows, _precision>>

vars == <<phase, args, thrown, _table, _data, fields, calls, last>>

(***************************************************************************)
(* Inputs.                                                                 *)
(***************************************************************************)
\* template class Plotter<int>; <double>; <std::string>.  Plotter<float> runs
\* the same code as Plotter<double>; it is not instantiated here.
Types == {"int", "double", "string"}

DataArrangement == {"ColumnMajor", "RowMajor"}

Names == {"X", "Title"}

LabelPool == {"A", "Id"}

ColumnNameLists == UNION {[1..n -> LabelPool] : n \in 0..MaxCols}

NoThrow == "none"

Unset == [top |-> 0, low |-> 0]

(***************************************************************************)
(* Element values.  An int is an integer; a double d is kept as the        *)
(* integer 1000 * d (all modelled doubles have at most three decimals and  *)
(* magnitude below 10^5, so their decimal expansions to 8 places are the   *)
(* ones written here); a std::string is a string.                          *)
(***************************************************************************)
IntElem(k) == IF k % 3 = 2 THEN -(k * 10^(k-1)) ELSE k * 10^(k-1)

DoublePool == <<12345678, 1500, -250, 0, 123456, 2000>>

DoubleElem(k) == DoublePool[((k-1) % Len(DoublePool)) + 1] + 1000 * ((k-1) \div Len(DoublePool))

StringPool == <<"a", "bcd", "", "hello!", "xy", "0">>

StringElem(k) == StringPool[((k-1) % Len(StringPool)) + 1]

Elem(t, k) ==
    CASE t = "int" -> IntElem(k)
      [] t = "double" -> DoubleElem(k)
      [] OTHER -> StringElem(k)

\* The caller's array of `size` elements of type t (C++ index i is i+1 here).
Buffer(t, size) == [k \in 1..size |-> Elem(t, k)]

\* T(): value-initialisation of the element type.
DefaultValue(t) == IF t = "string" THEN "" ELSE 0

(***************************************************************************)
(* Integer conversions.                                                    *)
(***************************************************************************)
\* C++ int division truncates toward zero.
TruncDiv(a, b) ==
    IF (a >= 0) = (b > 0) THEN (IF a >= 0 THEN a \div b ELSE (-a) \div (-b))
    ELSE (IF a >= 0 THEN -(a \div (-b)) ELSE -((-a) \div b))

\* int -> unsigned int: the value modulo 2^32, as [top, low] with
\* value = top * 2^31 + low, 0 <= low < 2^31.
ToUnsigned(i) ==
    IF i >= 0 THEN [top |-> 0, low |-> i]
    ELSE [top |-> 1, low |-> (i + 2147483647) + 1]

\* unsigned int -> int (std::setw takes an int): the same 32 bits.
ToInt(u) == IF u.top = 0 THEN u.low ELSE (u.low - 2147483647) - 1

(***************************************************************************)
(* Construction.                                                           *)
(***************************************************************************)
\* Faulty variant: the check of size left out.
validate_no_size_check(a) ==
    IF a.data_null THEN "Plotter: data pointer cannot be null."
    ELSE IF Len(a.column_names) = 0 THEN "Plotter: column names vector cannot be empty."
    ELSE IF a.table_width = 0 THEN "Plotter: table width cannot be zero."
    ELSE NoThrow

validate_inputs_throw_exception(a) ==
    IF a.data_null THEN "Plotter: data pointer cannot be null."
    ELSE IF Len(a.column_names) = 0 THEN "Plotter: column names vector cannot be empty."
    ELSE IF a.table_width = 0 THEN "Plotter: table width cannot be zero."
    ELSE IF a.size = 0 THEN "Plotter: size cannot be zero."
    ELSE NoThrow

\* Faulty variant: the quotient rounded down instead of toward zero.
calculate_column_width_floor(table_width, cols) ==
    (table_width - (cols + 1)) \div cols

calculate_column_width(table_width, cols) ==
    TruncDiv(table_width - (cols + 1), cols)

\* Faulty variant: a last, partial row counted.
calculate_rows_ceil(size, column_count) ==
    TruncDiv(size + column_count - 1, column_count)

calculate_rows(size, column_count) ==
    TruncDiv(size, column_count)

(***************************************************************************)
(* Text formatting.  A text is a sequence of characters.                   *)
(***************************************************************************)
\* The element of a one-element set.  { e(v) : v \in {x} } evaluates x once and
\* binds its value to v; The(...) takes the result out again.
The(S) == CHOOSE x \in S : TRUE

\* The characters of a string.
Chars(s) == [k \in 1..Len(s) |-> SubSeq(s, k, k)]

\* std::string(n, c) for n >= 0.
Rep(n, c) == [k \in 1..n |-> c]

\* std::string(count, ch) with a negative int count: the count converts to a
\* size_t above max_size() and the constructor throws std::length_error.
StringCtorThrows(count) == count < 0

DigitChar(d) == <<SubSeq("0123456789", d + 1, d + 1)>>

RECURSIVE Digits(_)
Digits(n) == IF n < 10 THEN DigitChar(n) ELSE Digits(n \div 10) \o DigitChar(n % 10)

RECURSIVE DigitsPadded(_, _)
\* The decimal digits of n, zero-filled on the left to w digits.
DigitsPadded(n, w) == IF w <= 0 THEN <<>> ELSE DigitsPadded(n \div 10, w - 1) \o DigitChar(n % 10)

Abs(n) == IF n < 0 THEN -n ELSE n

Sign(n) == IF n < 0 THEN <<"-">> ELSE <<>>

RECURSIVE StripZeros(_)
\* %g removes the trailing zeros of the fraction (and the point with them).
StripZeros(f) ==
    IF f = <<>> THEN <<>>
    ELSE IF f[Len(f)] = "0" THEN StripZeros(SubSeq(f, 1, Len(f) - 1))
    ELSE f

\* operator<< of a double m/1000 under std::fixed with `precision` decimals.
FixedDouble(m, precision) ==
    Sign(m) \o Digits(Abs(m) \div 1000) \o
    (IF precision = 0 THEN <<>>
     ELSE <<".">> \o SubSeq(DigitsPadded(Abs(m) % 1000, 3) \o Rep(precision - 3, "0"),
                        1, precision))

\* operator<< of a double m/1000 on a stream with default flags: %g with
\* precision 6, i.e. six significant digits, trailing zeros removed.  Values
\* below 1000 have at most six significant digits and print exactly; larger
\* ones (below 10^5 here) lose `drop` of their three decimals to rounding.
DefaultDouble(m) ==
    LET a    == Abs(m)
        drop == IF a < 1000000 THEN 0 ELSE IF a < 10000000 THEN 1 ELSE 2
        unit == 10^drop
        q    == a \div unit
        r    == a % unit
        up   == (2 * r > unit) \/ (2 * r = unit /\ q % 2 = 1)
        n    == IF up THEN q + 1 ELSE q
        keep == 3 - drop
        frac == StripZeros(DigitsPadded(n % (10^keep), keep))
    IN  IF a = 0 THEN <<"0">>
        ELSE Sign(m) \o Digits(n \div (10^keep)) \o (IF frac = <<>> THEN <<>> ELSE <<".">> \o frac)

\* The text `ss << std::setprecision(precision) << std::fixed << value` gives.
FixedText(t, v, precision) ==
    CASE t = "int" -> Sign(v) \o Digits(Abs(v))
      [] t = "double" -> FixedDouble(v, precision)
      [] OTHER -> Chars(v)

\* The text `ss << value` gives on a stream with default flags.
DefaultText(t, v) ==
    CASE t = "int" -> Sign(v) \o Digits(Abs(v))
      [] t = "double" -> DefaultDouble(v)
      [] OTHER -> Chars(v)

\* std::setw(w): the field is filled with spaces on the left up to w characters;
\* a text already that long, or a width <= 0, is written as it is.
SetW(w, text) == Rep(w - Len(text), " ") \o text

(***************************************************************************)
(* Rendering.  Each step takes the contents of _table and returns them     *)
(* with what the step appended; `threw` tells that the step ended in a     *)
(* std::length_error.  The operands of a << chain are evaluated left to    *)
(* right (the abbreviated function template of Plotter.hpp:41 needs C++20, *)
(* where operator<< sequences its operands), so what precedes a throwing   *)
(* std::string constructor in the chain is already in the buffer.          *)
(***************************************************************************)
\* what() of the std::length_error std::string's constructor throws (libstdc++).
LengthErrorWhat == Chars("basic_string::_M_create")

\* An unsigned int promoted to size_t, for a value below 2^31 (top = 0): the
\* render entry points are modelled for such column widths only, see CanRender.
SizeT(u) == u.low

\* Faulty variant: the odd character of space given to the left.
LeftPaddingCeil(space) == (space + 1) \div 2

\* `int left_padding = (space) / 2` where `space` is computed in size_t: for
\* space >= 0 the quotient; for space < 0 the size_t wraps to 2^64 + space and
\* the low 32 bits of its half, read as an int, are floor(space / 2).
LeftPadding(space) == space \div 2

print_endline(tab) == tab \o <<"+">> \o Rep(_table_width - 2, "-") \o <<"+", "\n">>

\* Faulty variant: the buffer emptied at the start of a render.
print_table_header_reset(tab) ==
    LET space         == _table_width - Len(_name) - 2
        left_padding  == LeftPadding(space)
        right_padding == space - left_padding
        border        == <<"+">> \o Rep(_table_width - 2, "-") \o <<"+", "\n">>
        t1            == <<>> \o <<"\n">> \o border \o <<"|">>
    IN  IF StringCtorThrows(left_padding)
        THEN [table |-> t1, threw |-> TRUE]
        ELSE IF StringCtorThrows(right_padding)
        THEN [table |-> t1 \o Rep(left_padding, " ") \o Chars(_name), threw |-> TRUE]
        ELSE [table |-> t1 \o Rep(left_padding, " ") \o Chars(_name)
                           \o Rep(right_padding, " ") \o <<"|", "\n">> \o border,
              threw |-> FALSE]

print_table_header(tab) ==
    LET space         == _table_width - Len(_name) - 2
        left_padding  == LeftPadding(space)
        right_padding == space - left_padding
        border        == <<"+">> \o Rep(_table_width - 2, "-") \o <<"+", "\n">>
        t1            == tab \o <<"\n">> \o border \o <<"|">>
    IN  IF StringCtorThrows(left_padding)
        THEN [table |-> t1, threw |-> TRUE]
        ELSE IF StringCtorThrows(right_padding)
        THEN [table |-> t1 \o Rep(left_padding, " ") \o Chars(_name), threw |-> TRUE]
        ELSE [table |-> t1 \o Rep(left_padding, " ") \o Chars(_name)
                           \o Rep(right_padding, " ") \o <<"|", "\n">> \o border,
              threw |-> FALSE]

RECURSIVE header_cells(_, _)
\* The loop of print_columns_header from column i on.
header_cells(tab, i) ==
    IF i >= _cols THEN [table |-> tab, threw |-> FALSE]
    ELSE LET header        == _column_names[i + 1]
             space         == SizeT(_column_width) - Len(header)
             left_padding  == LeftPadding(space)
             right_padding == space - left_padding
         IN  IF StringCtorThrows(left_padding)
             THEN [table |-> tab, threw |-> TRUE]
             ELSE IF StringCtorThrows(right_padding)
             THEN [table |-> tab \o Rep(left_padding, " ") \o Chars(header), threw |-> TRUE]
             ELSE header_cells(tab \o Rep(left_padding, " ") \o Chars(header)
                                   \o Rep(right_padding, " ") \o <<"|">>, i + 1)

print_columns_header(tab) ==
    The({ IF r.threw THEN r
          ELSE [table |-> print_endline(r.table \o <<"\n">>), threw |-> FALSE]
          : r \in {header_cells(tab \o <<"|">>, 0)} })

\* Faulty variant: < for <=.
col_width_is_sufficient_strict(value, column_width) ==
    column_width.top = 1 \/ Len(FixedText(T, value, _precision)) < column_width.low

\* ss.str().length() <= column_width, the unsigned int promoted to size_t.
col_width_is_sufficient(value, column_width) ==
    column_width.top = 1 \/ Len(FixedText(T, value, _precision)) <= column_width.low

\* _data[index].  An index outside the caller's array is undefined behaviour;
\* no render reads one (rows * cols <= size), and T() stands in for it.
ReadData(mem, index) ==
    IF index + 1 \in DOMAIN mem THEN mem[index + 1] ELSE DefaultValue(T)

\* Faulty variant: `auto& value`, the assignment reaching the caller's array.
AssignDefaultThroughReference(mem, index) ==
    IF index + 1 \in DOMAIN mem THEN [mem EXCEPT ![index + 1] = DefaultValue(T)] ELSE mem

\* `value = T()` assigns to the copy made by `auto value = _data[...]`: the
\* caller's array afterwards is the array before.
AssignDefault(mem, index) == mem

\* One pass of the loop of print_row, for cell j.  acc: the buffer (table), the
\* caller's array (mem), too_long_values_buffer (too_long), the cells written.
row_cell(acc, start_index, stride, j) ==
    LET index      == start_index + j * stride
        value      == ReadData(acc.mem, index)
        sufficient == col_width_is_sufficient(value, _column_width)
        note       == IF sufficient THEN <<>>
                      ELSE Chars("\n\n") \o Chars("cell: ") \o Digits(j) \o Chars(" value: ")
                           \o DefaultText(T, value)
        shown      == IF sufficient THEN value ELSE DefaultValue(T)
    IN  The({ [table    |-> acc.table \o text \o <<"|">>,
               mem      |-> IF sufficient THEN acc.mem ELSE AssignDefault(acc.mem, index),
               too_long |-> acc.too_long \o note,
               cells    |-> Append(acc.cells, [index |-> index, text |-> text, note |-> note])]
              : text \in {SetW(ToInt(_column_width), FixedText(T, shown, _precision))} })

RECURSIVE row_cells(_, _, _, _, _)
\* The loop of print_row from cell j on.
row_cells(acc, start_index, cell_count, stride, j) ==
    IF j >= cell_count THEN acc
    ELSE The({ row_cells(next, start_index, cell_count, stride, j + 1)
               : next \in {row_cell(acc, start_index, stride, j)} })

\* print_row: returns the buffer, the caller's array and a record of the row:
\* its cells, its bordered part (line) and what follows the closing bar (tail).
print_row(tab, mem, start_index, cell_count, stride) ==
    The({ [table |-> r.table \o r.too_long \o <<"\n">>,
           mem   |-> r.mem,
           row   |-> [cells |-> r.cells,
                      line  |-> SubSeq(r.table, Len(tab) + 1, Len(r.table)),
                      tail  |-> r.too_long \o <<"\n">>]]
          : r \in {row_cells([table |-> tab \o <<"|">>, mem |-> mem,
                              too_long |-> <<>>, cells |-> <<>>],
                             start_index, cell_count, stride, 0)} })

\* Faulty variant: the start index and stride of the two arrangements swapped.
content_row_swapped_stride(acc, i) ==
    The({ [table |-> r.table, mem |-> r.mem, rows |-> Append(acc.rows, r.row)]
          : r \in {IF _data_arrangement = "RowMajor"
                   THEN print_row(acc.table, acc.mem, i, _cols, _rows)
                   ELSE print_row(acc.table, acc.mem, i * _cols, _cols, 1)} })

\* One pass of the loops of print_content, for row i.  acc: table, mem, rows.
content_row(acc, i) ==
    The({ [table |-> r.table, mem |-> r.mem, rows |-> Append(acc.rows, r.row)]
          : r \in {IF _data_arrangement = "RowMajor"
                   THEN print_row(acc.table, acc.mem, i * _cols, _cols, 1)
                   ELSE print_row(acc.table, acc.mem, i, _cols, _rows)} })

RECURSIVE content_rows(_, _)
\* The loop of print_content from row i on.
content_rows(acc, i) ==
    IF i >= _rows THEN acc
    ELSE The({ content_rows(next, i + 1) : next \in {content_row(acc, i)} })

print_content(tab, mem) ==
    The({ [table |-> print_endline(r.table), mem |-> r.mem, rows |-> r.rows]
          : r \in {content_rows([table |-> tab, mem |-> mem, rows |-> <<>>], 0)} })

\* The try block of print_table and of get_table: the three steps in order,
\* left at the first one that throws.
try_block(tab, mem) ==
    The({ IF h.threw
          THEN [table |-> h.table, mem |-> mem, threw |-> "title",
                title |-> SubSeq(h.table, Len(tab) + 1, Len(h.table)), rows |-> <<>>]
          ELSE The({ IF c.threw
                     THEN [table |-> c.table, mem |-> mem, threw |-> "header",
                           title |-> SubSeq(h.table, Len(tab) + 1, Len(h.table)),
                           rows |-> <<>>]
                     ELSE The({ [table |-> b.table, mem |-> b.mem, threw |-> "none",
                                 title |-> SubSeq(h.table, Len(tab) + 1, Len(h.table)),
                                 rows |-> b.rows]
                                : b \in {print_content(c.table, mem)} })
                     : c \in {print_columns_header(h.table)} })
          : h \in {print_table_header(tab)} })

NoCall == [op |-> "none", text |-> <<>>, cout |-> <<>>, cerr |-> <<>>,
           propagated |-> FALSE, threw |-> "none", title |-> <<>>,
           entry |-> <<>>, rows |-> <<>>]

Init ==
    /\ phase = "unconstructed"
    /\ args = [type |-> "int", data_null |-> TRUE, name |-> "", column_names |-> <<>>,
               table_width |-> 0, size |-> 0, data_arrangement |-> "RowMajor"]
    /\ thrown = NoThrow
    /\ T = "int"
    /\ _table = <<>>
    /\ _data = <<>>
    /\ _data_arrangement = "RowMajor"
    /\ _column_names = <<>>
    /\ _name = ""
    /\ _table_width = 0
    /\ _column_width = Unset
    /\ _size = 0
    /\ _cols = 0
    /\ _rows = 0
    /\ _precision = 0
    /\ calls = 0
    /\ last = NoCall

\* Plotter<T>::Plotter.  A throwing constructor leaves no object behind.
Plotter(a) ==
    /\ args' = a
    /\ LET e == validate_inputs_throw_exception(a)
           cols == Len(a.column_names)
       IN  IF e # NoThrow
           THEN /\ phase' = "failed"
                /\ thrown' = e
                /\ UNCHANGED <<_data, fields>>
           ELSE /\ phase' = "constructed"
                /\ thrown' = NoThrow
                /\ T' = a.type
                /\ _data' = Buffer(a.type, a.size)
                /\ _data_arrangement' = a.data_arrangement
                /\ _column_names' = a.column_names
                /\ _name' = a.name
                /\ _table_width' = a.table_width
                /\ _size' = a.size
                /\ _cols' = cols
                /\ _rows' = calculate_rows(a.size, cols)
                /\ _column_width' = ToUnsigned(calculate_column_width(a.table_width, cols))
                /\ _precision' = 8
    /\ UNCHANGED <<_table, calls, last>>

Construct ==
    /\ phase = "unconstructed"
    /\ \E t \in Types, dn \in BOOLEAN, n \in Names, cn \in ColumnNameLists,
          tw \in 0..MaxWidth, sz \in 0..MaxSize, da \in DataArrangement :
           Plotter([type |-> t, data_null |-> dn, name |-> n, column_names |-> cn,
                    table_width |-> tw, size |-> sz, data_arrangement |-> da])

\* A table narrower than two characters asks for std::string(_table_width - 2, '-')
\* with an unsigned count of 2^32 - 1: rendering it is outside the model.
CanRender == phase = "constructed" /\ calls < MaxRenders /\ _table_width >= 2

print_table ==
    /\ CanRender
    /\ \E r \in {try_block(_table, _data)} :
       LET final == r.table \o <<"\n">>
           diag  == IF r.threw = "none" THEN <<>>
                    ELSE Chars("Error printing table: ") \o LengthErrorWhat
       IN  /\ _table' = final
           /\ _data' = r.mem
           /\ last' = [op |-> "print_table", text |-> final, cout |-> diag \o final,
                       cerr |-> <<>>, propagated |-> FALSE, threw |-> r.threw,
                       title |-> r.title, entry |-> _table, rows |-> r.rows]
    /\ calls' = calls + 1
    /\ UNCHANGED <<phase, args, thrown, fields>>

get_table ==
    /\ CanRender
    /\ \E r \in {try_block(_table, _data)} :
       LET final == r.table \o <<"\n">>
           diag  == IF r.threw = "none" THEN <<>>
                    ELSE Chars("Error printing table: ") \o Chars(_name) \o <<"\n">>
                         \o LengthErrorWhat \o <<"\n">>
       IN  /\ _table' = final
           /\ _data' = r.mem
           /\ last' = [op |-> "get_table", text |-> final, cout |-> <<>>,
                       cerr |-> diag, propagated |-> FALSE, threw |-> r.threw,
                       title |-> r.title, entry |-> _table, rows |-> r.rows]
    /\ calls' = calls + 1
    /\ UNCHANGED <<phase, args, thrown, fields>>

Next == Construct \/ print_table \/ get_table

Spec == Init /\ [][Next]_vars

(***************************************************************************)
(* Properties.                                                             *)
(***************************************************************************)
Rendered == last.op # "none"

\* The column width as a number, for a width below 2^31.
ColumnWidth == _column_width.low

Contains(s, sub) ==
    \E k \in 0..(Len(s) - Len(sub)) : SubSeq(s, k + 1, k + Len(sub)) = sub

RECURSIVE Copies(_, _)
Copies(n, text) == IF n <= 0 THEN <<>> ELSE text \o Copies(n - 1, text)

Border == <<"+">> \o Rep(_table_width - 2, "-") \o <<"+", "\n">>

\* The cells of the latest render, as <<row, column>> pairs counted from 0.
CellsOf(rows) == {<<i, j>> \in (0..(Len(rows) - 1)) \X (0..(_cols - 1)) : j < Len(rows[i + 1].cells)}

Annotation(j, valueText) == Chars("cell: ") \o Digits(j) \o Chars(" value: ") \o valueText

InvalidArgumentMessages ==
    {"Plotter: data pointer cannot be null.", "Plotter: column names vector cannot be empty.",
     "Plotter: table width cannot be zero.", "Plotter: size cannot be zero."}

\* C1: construction throws std::invalid_argument if and only if the data pointer
\* is null, the column-name list is empty, table_width is 0 or size is 0;
\* otherwise it succeeds; after a failed construction there is no instance to
\* render with.
C1_ConstructionFailsIffInvalid ==
    phase # "unconstructed" =>
        LET invalid == \/ args.data_null
                       \/ Len(args.column_names) = 0
                       \/ args.table_width = 0
                       \/ args.size = 0
        IN  /\ (phase = "failed") <=> invalid
            /\ (phase = "constructed") <=> ~invalid
            /\ phase = "failed" =>
                  /\ thrown \in InvalidArgumentMessages
                  /\ calls = 0 /\ last = NoCall /\ _table = <<>>
                  /\ ~ENABLED (print_table \/ get_table)
            /\ phase = "constructed" => thrown = NoThrow

C1_Witness ==
    /\ phase = "failed"
    /\ ~args.data_null /\ Len(args.column_names) = 2 /\ args.table_width = 13
    /\ args.size = 0
    /\ thrown = "Plotter: size cannot be zero."

\* C2: no render call propagates an exception; on a failure in the title, header
\* or content step a diagnostic goes to the side channel (std::cerr), and the
\* text returned or printed is what the buffer held at the failure plus one
\* newline (print_table puts nothing else on std::cout).
C2_DiagnosticOnSideChannel ==
    Rendered =>
        /\ ~last.propagated
        /\ last.text = _table
        /\ Len(last.text) > Len(last.entry)
        /\ SubSeq(last.text, 1, Len(last.entry)) = last.entry
        /\ last.text[Len(last.text)] = "\n"
        /\ last.threw # "none" => last.cerr # <<>>
        /\ last.cout = (IF last.op = "print_table" THEN last.text ELSE <<>>)

\* C3: the buffer is never reset: the text of the n-th render call on an
\* instance is n copies of the text of one render on a fresh instance.
C3_NthRenderIsNCopies ==
    Rendered =>
        /\ last.text = Copies(calls, try_block(<<>>, _data).table \o <<"\n">>)
        /\ _table = last.text

C3_Witness ==
    /\ calls = 2 /\ last.op = "get_table" /\ last.threw = "none"
    /\ Len(last.rows) = 3 /\ _cols = 2
    /\ last.text = last.entry \o last.entry

\* C4: cell j of content row i takes the buffer element at index i*cols + j
\* under RowMajor and i + j*rows under ColumnMajor, and the row shows it: in
\* the cell when its text fits, in the row's annotation for cell j when not.
C4_CellIndexMapping ==
    Rendered =>
        \A i \in 0..(Len(last.rows) - 1) :
            /\ Len(last.rows[i + 1].cells) = _cols
            /\ \A j \in 0..(_cols - 1) :
                  LET cell  == last.rows[i + 1].cells[j + 1]
                      index == IF _data_arrangement = "RowMajor"
                               THEN i * _cols + j ELSE i + j * _rows
                      fixed == FixedText(T, _data[index + 1], _precision)
                  IN  /\ cell.index = index
                      /\ Len(fixed) <= ColumnWidth =>
                            cell.text = Rep(ColumnWidth - Len(fixed), " ") \o fixed
                      /\ Len(fixed) > ColumnWidth =>
                            Contains(last.rows[i + 1].tail,
                                     Annotation(j, DefaultText(T, _data[index + 1])))

C4_Witness ==
    /\ Rendered /\ T = "int" /\ _size = 6 /\ _cols = 2 /\ _rows = 3
    /\ _data_arrangement = "ColumnMajor" /\ _table_width = 13
    /\ Len(last.rows) = 3
    /\ last.rows[1].cells[1].index = 0 /\ last.rows[1].cells[2].index = 3
    /\ last.rows[1].line = Chars("|    1| 4000|")

\* C5 as stated: an overflowing cell shows T() and the row's annotation holds
\* "cell: <j> value: <v>" with <v> the value's fixed-precision (8 decimals) text.
C5_AnnotationIsFixedPrecisionText ==
    Rendered =>
        \A c \in CellsOf(last.rows) :
            LET row   == last.rows[c[1] + 1]
                cell  == row.cells[c[2] + 1]
                value == _data[cell.index + 1]
            IN  Len(FixedText(T, value, _precision)) > ColumnWidth =>
                    Contains(row.tail, Annotation(c[2], FixedText(T, value, _precision)))

\* C5, amended: an overflowing cell shows T() (written with the stream's fixed
\* 8-decimal format) and the row's annotation, after the closing '|' and before
\* the final newline, holds "cell: <j> value: <v>" with <v> the value's text
\* under the default stream format (six significant digits for a double; the
\* same text as the fixed one for int and std::string); a value that fits
\* leaves no annotation.
C5_AnnotationIsDefaultFormatText ==
    Rendered =>
        \A c \in CellsOf(last.rows) :
            LET row   == last.rows[c[1] + 1]
                cell  == row.cells[c[2] + 1]
                value == _data[cell.index + 1]
                zero  == FixedText(T, DefaultValue(T), _precision)
            IN  /\ row.line[Len(row.line)] = "|"
                /\ row.tail[Len(row.tail)] = "\n"
                /\ IF Len(FixedText(T, value, _precision)) > ColumnWidth
                   THEN /\ cell.text = Rep(ColumnWidth - Len(zero), " ") \o zero
                        /\ Contains(SubSeq(row.tail, 1, Len(row.tail) - 1),
                                    Annotation(c[2], DefaultText(T, value)))
                        /\ (T = "double" /\ value = 12345678) =>
                               Contains(row.tail, Annotation(c[2], Chars("12345.7")))
                   ELSE ~Contains(row.tail, Annotation(c[2], <<>>))

C5_Witness ==
    /\ Rendered /\ T = "double" /\ ColumnWidth = 5 /\ _cols = 1 /\ Len(last.rows) = 2
    /\ last.rows[1].cells[1].text = Chars("0.00000000")
    /\ last.rows[1].tail = Chars("\n\ncell: 0 value: 12345.7\n")
    /\ last.rows[2].tail = Chars("\n\ncell: 0 value: 1.5\n")

\* C6: in every content row the bordered part, from the opening '|' through the
\* closing '|', is cols*column_width + cols + 1 characters long: every cell as
\* written, a substituted default value included, takes column_width characters.
C6_RowsKeepAlignment ==
    Rendered =>
        \A i \in 1..Len(last.rows) :
            /\ Len(last.rows[i].line) = _cols * ColumnWidth + _cols + 1
            /\ \A j \in 1..Len(last.rows[i].cells) :
                  Len(last.rows[i].cells[j].text) = ColumnWidth

\* The title banner for given paddings.
Banner(left, right) ==
    <<"\n">> \o Border \o <<"|">> \o Rep(left, " ") \o Chars(_name)
             \o Rep(right, " ") \o <<"|", "\n">> \o Border

\* C7 as stated: the title row is '|' + left_padding spaces + name +
\* right_padding spaces + '|' with left_padding = (table_width - name.length
\* - 2) / 2 rounded down and right_padding the rest, between two borders of
\* table_width - 2 dashes framed by '+'; "X" at width 11 gives left_padding 4,
\* right_padding 5 and the row "|    X     |".
C7_TitleCenteringExample ==
    Rendered =>
        LET space == _table_width - Len(_name) - 2
        IN  /\ space >= 0 => last.title = Banner(space \div 2, space - space \div 2)
            /\ (_name = "X" /\ _table_width = 11) =>
                  last.title = Chars("\n+---------+\n|    X     |\n+---------+\n")

\* C7, amended: the same layout (for a name that fits in table_width - 2);
\* "X" at width 11 gives left_padding 4 and right_padding 4, the row
\* "|    X    |"; the 4 / 5 split and the row "|    X     |" belong to width 12.
C7_TitleCentering ==
    Rendered =>
        LET space == _table_width - Len(_name) - 2
            left  == space \div 2
            right == space - left
        IN  /\ (space >= 0) <=> (last.threw # "title")
            /\ space >= 0 =>
                  /\ 2 * left <= space /\ space <= 2 * left + 1
                  /\ last.title = Banner(left, right)
            /\ (_name = "X" /\ _table_width = 11) =>
                  last.title = Chars("\n+---------+\n|    X    |\n+---------+\n")
            /\ (_name = "X" /\ _table_width = 12) =>
                  last.title = Chars("\n+----------+\n|    X     |\n+----------+\n")

C7_Witness ==
    /\ Rendered /\ _name = "X" /\ _table_width = 12
    /\ last.title = Chars("\n+----------+\n|    X     |\n+----------+\n")

\* The quotient (table_width - (cols + 1)) / cols truncated toward zero.
WidthQuotient ==
    LET q == args.table_width - (Len(args.column_names) + 1)
    IN  IF q >= 0 THEN q \div Len(args.column_names)
        ELSE -((-q) \div Len(args.column_names))

\* C8 as stated: after construction column_width is the number
\* (table_width - (cols + 1)) / cols, zero or negative when the table is too
\* narrow, and no error is raised.
C8_ColumnWidthIsSignedQuotient ==
    phase = "constructed" =>
        /\ _column_width.top = 0
        /\ _column_width.low = WidthQuotient

\* C8, amended: after construction (table_width below 2^31) column_width is
\* that truncated quotient converted to unsigned int: the quotient itself when
\* it is >= 0 (it is 0 for 2 <= table_width <= 2 * cols), and 2^32 - 1 when it
\* is -1 (table_width = 1); no error is raised.
C8_ColumnWidthIsUnsignedQuotient ==
    /\ (~args.data_null /\ Len(args.column_names) > 0 /\ args.table_width >= 1
        /\ args.size >= 1 /\ phase # "unconstructed") => phase = "constructed"
    /\ phase = "constructed" =>
        /\ _cols = Len(args.column_names) /\ _table_width = args.table_width
        /\ IF WidthQuotient >= 0
           THEN _column_width = [top |-> 0, low |-> WidthQuotient]
           ELSE /\ WidthQuotient = -1 /\ _table_width = 1
                /\ _column_width = [top |-> 1, low |-> 2147483647]

C8_Witness ==
    /\ phase = "constructed" /\ _table_width = 1 /\ _cols = 2
    /\ _column_width = [top |-> 1, low |-> 2147483647]

\* C9: render calls leave the caller's buffer and the values fixed at
\* construction (cols, rows, column_width, precision, table_width, name,
\* labels, arrangement) as they were; substituting T() for an overflowing
\* cell changes the text only.
C9_RenderLeavesBufferAndFields ==
    [][phase = "constructed" => (_data' = _data /\ fields' = fields)]_vars

C9_Witness ==
    /\ Rendered /\ calls = 2 /\ T = "int" /\ _size = 6
    /\ \E i \in 1..Len(last.rows) : \E j \in 1.._cols : last.rows[i].cells[j].note # <<>>
    /\ _data = Buffer("int", 6)
    /\ _precision = 8

\* The indices the latest render read, with their multiplicity.
TimesRead(index) ==
    Cardinality({c \in CellsOf(last.rows) : last.rows[c[1] + 1].cells[c[2] + 1].index = index})

ReadsAreExactlyTheGrid ==
    /\ \A i \in 1..Len(last.rows) : Len(last.rows[i].cells) = _cols
    /\ \A c \in CellsOf(last.rows) :
          last.rows[c[1] + 1].cells[c[2] + 1].index \in 0..(Len(last.rows) * _cols - 1)
    /\ \A index \in 0..(Len(last.rows) * _cols - 1) : TimesRead(index) = 1
    /\ \A c \in CellsOf(last.rows) : last.rows[c[1] + 1].cells[c[2] + 1].index < _size
    /\ \A index \in (Len(last.rows) * _cols)..(_size - 1) : TimesRead(index) = 0

\* C10 as stated: one render of any constructed instance emits size div cols
\* content rows of cols cells and reads exactly the indices 0 .. rows*cols - 1,
\* each once.
C10_EveryRenderEmitsAllRows ==
    Rendered =>
        /\ Len(last.rows) = _size \div _cols
        /\ ReadsAreExactlyTheGrid

\* C10, amended: a render whose title and header steps complete emits
\* rows = size div cols content rows of cols cells and reads exactly the
\* indices 0 .. rows*cols - 1, each once; a render that fails in the title or
\* header step emits no content row and reads nothing.  In both cases no index
\* >= size is read and the last size mod cols elements are never read.
C10_CompletedRenderEmitsAllRows ==
    /\ phase = "constructed" => _rows = _size \div _cols
    /\ Rendered =>
        /\ ReadsAreExactlyTheGrid
        /\ IF last.threw = "none"
           THEN Len(last.rows) = _size \div _cols
           ELSE last.rows = <<>>

C10_Witness ==
    /\ Rendered /\ last.threw = "none" /\ _size = 5 /\ _cols = 2
    /\ Len(last.rows) = 2
    /\ TimesRead(3) = 1 /\ TimesRead(4) = 0

=============================================================================
